---- MODULE Spec2Model ----
(***************************************************************************)
(* A model of psst-core/src/util.rs (the TcpShutdown connection guard, the *)
(* wrapping Sequence counter, the OffsetFile view of a seekable backing    *)
(* store, the protobuf helpers) and of psst-gui/src/web.rs and             *)
(* psst-gui/src/data/mod.rs.  Each component has its own specification;    *)
(* the variables of the other components stay parked at a fixed value      *)
(* under it.                                                               *)
(***************************************************************************)
EXTENDS Integers, Sequences, FiniteSets

(***************************************************************************)
(* Bounds of the model.                                                    *)
(***************************************************************************)
NumCallers == 3          \* threads that call TcpShutdown::shutdown
MaxCalls == 1            \* shutdown() calls each caller may make
MaxQueries == 1          \* has_been_shut_down() calls in one behaviour
MaxBits == 4             \* widest Sequence<T> modelled (T of 1..MaxBits bits)
WordBits == 8            \* width the 64-bit positions of OffsetFile are scaled to
MaxOps == 3              \* operations on one OffsetFile in one behaviour
MaxPayload == 2          \* longest bytes field of a modelled message
TokenTtl == 2            \* ticks a fetched access token stays usable
MaxTime == 2             \* ticks of the clock in one behaviour
SessBits == 2            \* width of the session's sequence ids
MaxPages == 8            \* page requests of one with_paging call that are followed
MaxSaved == 2            \* longest list of saved albums or saved tracks
MaxProgress == 1         \* largest playback progress reported

Callers == 1..NumCallers

VARIABLES
    \* ---- TcpShutdown (util.rs 83-106)
    shutdown,       \* the field `shutdown: bool`
    closes,         \* how many times stream.shutdown(Shutdown::Both) was issued
    closeResult,    \* what the last stream.shutdown(Both) returned: "none", "Ok", "Err"
    closedBy,       \* the ordinals of the calls that issued a close, in order
    borrowers,      \* callers holding the `&mut self` borrow of the guard
    pc,             \* each caller's position in shutdown()
    calls,          \* shutdown() calls each caller has made
    entered,        \* shutdown() calls that have begun executing
    ord,            \* the ordinal (1 = first) of each caller's current call
    overlapped,     \* have two calls ever been in flight at once
    queries,        \* has_been_shut_down() calls made
    observed,       \* what the last has_been_shut_down() returned, "none" before any
    \* ---- Sequence<T> (util.rs 29-41)
    seqBits,        \* the width of T in bits
    seqVal,         \* the field `.0`
    seqRets,        \* the values advance() has returned, in order
    seqStatus,      \* "ok", or "panic" once a call has panicked
    \* ---- OffsetFile<T> (util.rs 43-81) over a backing store
    overflowChecks, \* the build: TRUE panics on integer overflow, FALSE wraps
    offState,       \* "none" before OffsetFile::new, then "live", "failed" or "panicked"
    offset,         \* the field `offset: u64`
    streamPos,      \* the cursor of the field `stream`
    streamLen,      \* the length of the backing store
    last,           \* the last operation on the view and its outcome
    offOps,         \* operations made on the view
    \* ---- serialize_protobuf / deserialize_protobuf (util.rs 108-134)
    codecMsg,       \* the message handed to serialize_protobuf
    codecBuf,       \* what it returned, outcome "none" before
    codecOut,       \* what deserialize_protobuf returned for the bytes
    \* ---- Web::client (web.rs 111-120) over the TokenProvider
    now,            \* the clock
    tokExpires,     \* expiry of the provider's cached token, None when it has none
    tokInflight,    \* is a token fetch on the transport
    tokPc,          \* each caller of Web::client: "idle", "waiting" or "done"
    tokCalls,       \* Web::client calls each caller has made
    tokGot,         \* what each caller's last call returned
    tokServed,      \* the fetch (1 = first) that served each caller, 0 for the cache
    tokFetches,     \* for each fetch started, how many fetches had completed then
    tokCompleted,   \* fetches completed
    spotifyToken,   \* expiry last given to set_current_access_token, None before
    \* ---- Session::send_request over Sequence and TcpShutdown
    sessSeq,        \* the session's Sequence: the next id
    sessGuard,      \* the session's TcpShutdown: [shutdown, closes]
    sessTable,      \* correlation table: id -> waiting caller, 0 for no entry
    sessWire,       \* requests written whose reply has not come in: [id, from, n]
    sessPc,         \* each caller of send_request: "idle", "waiting" or "done"
    sessCalls,      \* send_request calls each caller has made
    sessId,         \* the id allocated for each caller's current request, None before
    sessWrites,     \* writes to the transport made for each caller's current request
    sessRes,        \* what each caller's last send_request returned, "none" before
    sessGot,        \* the reply handed to each caller, NoReply when none was
    sessDropped,    \* the last reply the reader loop dropped, NoReply before
    \* ---- Web::with_paging (web.rs 126-153)
    pgTotal,        \* items in the server's collection
    pgDrops,        \* positions of the items map_fn maps to None
    pgResults,      \* results.len()
    pgLimit,        \* `limit`
    pgOffset,       \* `offset`
    pgPc,           \* "loop" inside the loop, "done" after the break
    pgRequests,     \* page requests made
    \* ---- State (data/mod.rs 35-180) and CommonCtx (199-228)
    pbState,        \* playback.state
    pbCurrent,      \* playback.current, NoCurrent for None
    ctxItem,        \* common_ctx.playback_item, "none" for None
    libAlbums,      \* library.saved_albums: [resolved, items]
    libTracks,      \* library.saved_tracks: [resolved, items]
    ctxAlbums,      \* common_ctx.saved_albums
    ctxTracks,      \* common_ctx.saved_tracks
    \* ---- CacheEntry (web.rs 36-60) under Web::load_album (243-258)
    cacheFiles,     \* the file at each album's cache path
    cacheLast       \* the last load_album call: its inputs and what it did

tcpVars == <<shutdown, closes, closeResult, closedBy, borrowers, pc, calls,
             entered, ord, overlapped, queries, observed>>

seqVars == <<seqBits, seqVal, seqRets, seqStatus>>

offVars == <<overflowChecks, offState, offset, streamPos, streamLen, last, offOps>>

codecVars == <<codecMsg, codecBuf, codecOut>>

tokVars == <<now, tokExpires, tokInflight, tokPc, tokCalls, tokGot, tokServed,
             tokFetches, tokCompleted, spotifyToken>>

\* The variables of the components added after the first three.
sessVars == <<sessSeq, sessGuard, sessTable, sessWire, sessPc, sessCalls, sessId,
              sessWrites, sessRes, sessGot, sessDropped>>

pgVars == <<pgTotal, pgDrops, pgResults, pgLimit, pgOffset, pgPc, pgRequests>>

stVars == <<pbState, pbCurrent, ctxItem, libAlbums, libTracks, ctxAlbums, ctxTracks>>

cacheVars == <<cacheFiles, cacheLast>>

otherVars == <<codecVars, tokVars, sessVars, pgVars, stVars, cacheVars>>

vars == <<tcpVars, seqVars, offVars, otherVars>>

Pow2(n) == 2 ^ n

\* What an action of one component leaves unchanged: all the others.
frameCodec == <<tcpVars, seqVars, offVars, tokVars, sessVars, pgVars, stVars, cacheVars>>
frameTok == <<tcpVars, seqVars, offVars, codecVars, sessVars, pgVars, stVars, cacheVars>>
frameSess == <<tcpVars, seqVars, offVars, codecVars, tokVars, pgVars, stVars, cacheVars>>
frameState == <<tcpVars, seqVars, offVars, codecVars, tokVars, sessVars, pgVars, cacheVars>>
frameCache == <<tcpVars, seqVars, offVars, codecVars, tokVars, sessVars, pgVars, stVars>>
framePaging == <<tcpVars, seqVars, offVars, codecVars, tokVars, sessVars, stVars, cacheVars>>

(***************************************************************************)
(* TcpShutdown                                                             *)
(***************************************************************************)

\* TcpShutdown::new: the flag starts false, nothing was closed.
TcpShutdown_new ==
    /\ shutdown = FALSE
    /\ closes = 0
    /\ closeResult = "none"
    /\ closedBy = <<>>
    /\ borrowers = {}
    /\ pc = [c \in Callers |-> "idle"]
    /\ calls = [c \in Callers |-> 0]
    /\ entered = 0
    /\ ord = [c \in Callers |-> 0]
    /\ overlapped = FALSE
    /\ queries = 0
    /\ observed = "none"

InFlight(p) == {c \in Callers : p[c] \in {"invoked", "l97", "l98", "l99", "l101"}}

\* A caller invokes shutdown(); it has not yet obtained the guard.
Invoke(c) ==
    /\ pc[c] \in {"idle", "returned"}
    /\ calls[c] < MaxCalls
    /\ pc' = [pc EXCEPT ![c] = "invoked"]
    /\ calls' = [calls EXCEPT ![c] = @ + 1]
    /\ overlapped' = (overlapped \/ Cardinality(InFlight(pc')) >= 2)
    /\ UNCHANGED <<shutdown, closes, closeResult, closedBy, borrowers, entered,
                   ord, queries, observed,
                   seqVars, offVars, otherVars>>

\* A mutable borrow that does not exclude the other borrowers.
BorrowShared(c) ==
    /\ pc[c] = "invoked"
    /\ borrowers' = borrowers \cup {c}
    /\ entered' = entered + 1
    /\ ord' = [ord EXCEPT ![c] = entered + 1]
    /\ pc' = [pc EXCEPT ![c] = "l97"]
    /\ UNCHANGED <<shutdown, closes, closeResult, closedBy, calls, overlapped,
                   queries, observed,
                   seqVars, offVars, otherVars>>

\* `pub fn shutdown(&mut self)`: the body runs under an exclusive borrow.
Borrow(c) ==
    /\ pc[c] = "invoked"
    /\ borrowers = {}
    /\ borrowers' = {c}
    /\ entered' = entered + 1
    /\ ord' = [ord EXCEPT ![c] = entered + 1]
    /\ pc' = [pc EXCEPT ![c] = "l97"]
    /\ UNCHANGED <<shutdown, closes, closeResult, closedBy, calls, overlapped,
                   queries, observed,
                   seqVars, offVars, otherVars>>

\* A test that lets every call through to the close.
TestAlways(c) ==
    /\ pc[c] = "l97"
    /\ pc' = [pc EXCEPT ![c] = "l98"]
    /\ UNCHANGED <<shutdown, closes, closeResult, closedBy, borrowers, calls,
                   entered, ord, overlapped, queries, observed,
                   seqVars, offVars, otherVars>>

\* `if !self.shutdown {`
Test(c) ==
    /\ pc[c] = "l97"
    /\ pc' = [pc EXCEPT ![c] = IF ~shutdown THEN "l98" ELSE "l101"]
    /\ UNCHANGED <<shutdown, closes, closeResult, closedBy, borrowers, calls,
                   entered, ord, overlapped, queries, observed,
                   seqVars, offVars, otherVars>>

\* `self.shutdown = true;`
SetFlag(c) ==
    /\ pc[c] = "l98"
    /\ shutdown' = TRUE
    /\ pc' = [pc EXCEPT ![c] = "l99"]
    /\ UNCHANGED <<closes, closeResult, closedBy, borrowers, calls, entered,
                   ord, overlapped, queries, observed,
                   seqVars, offVars, otherVars>>

\* A close whose error is unwrapped: a failed close panics the caller.
CloseUnwrap(c) ==
    /\ pc[c] = "l99"
    /\ \E r \in {"Ok", "Err"} :
          /\ closeResult' = r
          /\ pc' = [pc EXCEPT ![c] = IF r = "Ok" THEN "l101" ELSE "panicked"]
          /\ borrowers' = IF r = "Ok" THEN borrowers ELSE borrowers \ {c}
    /\ closes' = closes + 1
    /\ closedBy' = Append(closedBy, ord[c])
    /\ UNCHANGED <<shutdown, calls, entered, ord, overlapped, queries, observed,
                   seqVars, offVars, otherVars>>

\* `let _ = self.stream.shutdown(Shutdown::Both);`: the socket call succeeds
\* or fails, and its result is dropped.
Close(c) ==
    /\ pc[c] = "l99"
    /\ \E r \in {"Ok", "Err"} : closeResult' = r
    /\ closes' = closes + 1
    /\ closedBy' = Append(closedBy, ord[c])
    /\ pc' = [pc EXCEPT ![c] = "l101"]
    /\ UNCHANGED <<shutdown, borrowers, calls, entered, ord, overlapped,
                   queries, observed,
                   seqVars, offVars, otherVars>>

\* The end of shutdown(): it returns () and the borrow ends.
Return(c) ==
    /\ pc[c] = "l101"
    /\ pc' = [pc EXCEPT ![c] = "returned"]
    /\ borrowers' = borrowers \ {c}
    /\ UNCHANGED <<shutdown, closes, closeResult, closedBy, calls, entered,
                   ord, overlapped, queries, observed,
                   seqVars, offVars, otherVars>>

\* The bool a query returns, as the caller records it.
Answer(b) == IF b THEN "true" ELSE "false"

\* A query that takes the flag, leaving false behind.
HasBeenShutDownTake ==
    /\ borrowers = {}
    /\ queries < MaxQueries
    /\ queries' = queries + 1
    /\ observed' = Answer(shutdown)
    /\ shutdown' = FALSE
    /\ UNCHANGED <<closes, closeResult, closedBy, borrowers, pc, calls, entered,
                   ord, overlapped,
                   seqVars, offVars, otherVars>>

\* `pub fn has_been_shut_down(&self) -> bool { self.shutdown }`: a shared
\* borrow, so no shutdown() is executing.
HasBeenShutDown ==
    /\ borrowers = {}
    /\ queries < MaxQueries
    /\ queries' = queries + 1
    /\ observed' = Answer(shutdown)
    /\ UNCHANGED <<shutdown, closes, closeResult, closedBy, borrowers, pc, calls,
                   entered, ord, overlapped,
                   seqVars, offVars, otherVars>>

NextTcp ==
    \/ \E c \in Callers : Invoke(c)
    \/ \E c \in Callers : Borrow(c)
    \/ \E c \in Callers : Test(c)
    \/ \E c \in Callers : SetFlag(c)
    \/ \E c \in Callers : Close(c)
    \/ \E c \in Callers : Return(c)
    \/ HasBeenShutDown

(***************************************************************************)
(* Sequence<T>                                                             *)
(***************************************************************************)

MaxOf(bits) == Pow2(bits) - 1

\* T::wrapping_add for an unsigned T of `bits` bits.
wrapping_add(a, b, bits) ==
    IF a + b > MaxOf(bits) THEN a + b - Pow2(bits) ELSE a + b

\* An addition that stops at the maximum instead of wrapping.
saturating_add(a, b, bits) ==
    IF a + b > MaxOf(bits) THEN MaxOf(bits) ELSE a + b

\* advance() that returns the incremented value.
Sequence_advance_PreIncrement(v, bits) ==
    [ret |-> wrapping_add(v, 1, bits), next |-> wrapping_add(v, 1, bits), status |-> "ok"]

\* advance() that adds with saturation.
\* advance() that hands back the value and leaves it in place.
Sequence_advance_Stuck(v, bits) ==
    [ret |-> v, next |-> v, status |-> "ok"]

Sequence_advance_Saturating(v, bits) ==
    [ret |-> v, next |-> saturating_add(v, 1, bits), status |-> "ok"]

\* Sequence::advance on the stored value v: `next` is v.wrapping_add(1),
\* mem::replace stores it and hands back the old value.
Sequence_advance(v, bits) ==
    [ret |-> v, next |-> wrapping_add(v, 1, bits), status |-> "ok"]

\* Sequence::new(value), for each width and each starting value.
Sequence_new ==
    /\ seqBits \in 1..MaxBits
    /\ seqVal \in 0..MaxOf(seqBits)
    /\ seqRets = <<>>
    /\ seqStatus = "ok"

\* One call of advance(); calls stop after a full wraparound and one more.
Advance ==
    /\ seqStatus = "ok"
    /\ Len(seqRets) < Pow2(seqBits) + 1
    /\ LET r == Sequence_advance(seqVal, seqBits) IN
          /\ seqStatus' = r.status
          /\ seqVal' = IF r.status = "ok" THEN r.next ELSE seqVal
          /\ seqRets' = IF r.status = "ok" THEN Append(seqRets, r.ret) ELSE seqRets
    /\ UNCHANGED <<seqBits, tcpVars, offVars, otherVars>>

NextSeq == Advance

(***************************************************************************)
(* OffsetFile<T>                                                           *)
(***************************************************************************)

MaxWord == Pow2(WordBits) - 1         \* u64::MAX at the model's width

Bases == {0, 100}                     \* base offsets given to OffsetFile::new
StoreLens == {120}                    \* lengths of the backing store
StartArgs == {0, 50, MaxWord - 99, MaxWord}
CurrentArgs == {-60, 0, 10}
EndArgs == {-80, 0}
BufLen == {10}                        \* buffer lengths handed to read and write

NoOp == [op |-> "none"]

\* u64::saturating_sub
saturating_sub(a, b) == IF a >= b THEN a - b ELSE 0

\* A subtraction that wraps below zero.
wrapping_sub(a, b) == IF a >= b THEN a - b ELSE a - b + MaxWord + 1

\* Seek::seek of the backing store (std::io::Cursor and File alike): the
\* target is n, pos + k or len + k; a target below zero or beyond u64 is an
\* error, as is an I/O failure, and an error leaves the cursor where it was.
StreamSeek(from, arg, pos, len, fail) ==
    LET target == CASE from = "Start" -> arg
                    [] from = "Current" -> pos + arg
                    [] from = "End" -> len + arg
    IN IF fail \/ target < 0 \/ target > MaxWord
       THEN [outcome |-> "Err", pos |-> pos]
       ELSE [outcome |-> "Ok", pos |-> target]

\* The request handed on with every kind of seek translated by the offset.
SeekRequest_TranslateAll(from, arg, checks) ==
    IF from = "Start" /\ arg + offset > MaxWord
    THEN IF checks THEN [outcome |-> "Panic"]
         ELSE [outcome |-> "Ok", from |-> "Start", arg |-> arg + offset - (MaxWord + 1)]
    ELSE [outcome |-> "Ok", from |-> from, arg |-> arg + offset]

\* `let offset_pos = match pos { Start(offset) => Start(offset + self.offset),
\* from_end_or_current => from_end_or_current }`.  The u64 addition panics
\* on overflow in a build with overflow checks and wraps in one without.
SeekRequest(from, arg, checks) ==
    IF from = "Start"
    THEN IF arg + offset > MaxWord
         THEN IF checks THEN [outcome |-> "Panic"]
              ELSE [outcome |-> "Ok", from |-> "Start", arg |-> arg + offset - (MaxWord + 1)]
         ELSE [outcome |-> "Ok", from |-> "Start", arg |-> arg + offset]
    ELSE [outcome |-> "Ok", from |-> from, arg |-> arg]

\* The position reported with a wrapping subtraction.
ReportedPos_Wrapping(new_pos) == wrapping_sub(new_pos, offset)

\* `let offset_new_pos = new_pos.saturating_sub(self.offset);`
ReportedPos(new_pos) == saturating_sub(new_pos, offset)

\* The state before any view exists: a store with its cursor at the start.
OffsetFile_none ==
    /\ overflowChecks \in BOOLEAN
    /\ offState = "none"
    /\ offset = 0
    /\ streamPos = 0
    /\ streamLen \in StoreLens
    /\ last = NoOp
    /\ offOps = 0

\* A constructor that records the offset without moving the store.
New_NoSeek(b, fail) ==
    /\ offState = "none"
    /\ offState' = IF fail THEN "failed" ELSE "live"
    /\ offset' = IF fail THEN offset ELSE b
    /\ last' = [op |-> "new", arg |-> b, outcome |-> IF fail THEN "Err" ELSE "Ok"]
    /\ UNCHANGED <<streamPos, overflowChecks, streamLen, offOps, tcpVars, seqVars, otherVars>>

\* OffsetFile::new(stream, offset): `stream.seek(SeekFrom::Start(offset))?`
\* and then the view; a failed seek returns the error and builds no view.
New(b, fail) ==
    /\ offState = "none"
    /\ LET r == StreamSeek("Start", b, streamPos, streamLen, fail) IN
          /\ streamPos' = r.pos
          /\ offState' = IF r.outcome = "Ok" THEN "live" ELSE "failed"
          /\ offset' = IF r.outcome = "Ok" THEN b ELSE offset
          /\ last' = [op |-> "new", arg |-> b, outcome |-> r.outcome]
    /\ UNCHANGED <<overflowChecks, streamLen, offOps, tcpVars, seqVars, otherVars>>

\* <OffsetFile as io::Seek>::seek(pos)
Seek(from, arg, fail) ==
    /\ offState = "live"
    /\ offOps < MaxOps
    /\ offOps' = offOps + 1
    /\ LET req == SeekRequest(from, arg, overflowChecks) IN
          IF req.outcome = "Panic"
          THEN /\ offState' = "panicked"
               /\ last' = [op |-> "seek", from |-> from, arg |-> arg,
                           outcome |-> "Panic", posBefore |-> streamPos,
                           lenBefore |-> streamLen]
               /\ UNCHANGED streamPos
          ELSE LET r == StreamSeek(req.from, req.arg, streamPos, streamLen, fail) IN
               /\ streamPos' = r.pos
               /\ last' = IF r.outcome = "Ok"
                          THEN [op |-> "seek", from |-> from, arg |-> arg,
                                outcome |-> "Ok", posBefore |-> streamPos,
                                lenBefore |-> streamLen,
                                passedFrom |-> req.from, passedArg |-> req.arg,
                                ret |-> ReportedPos(r.pos)]
                          ELSE [op |-> "seek", from |-> from, arg |-> arg,
                                outcome |-> "Err", posBefore |-> streamPos,
                                lenBefore |-> streamLen,
                                passedFrom |-> req.from, passedArg |-> req.arg]
               /\ UNCHANGED offState
    /\ UNCHANGED <<overflowChecks, offset, streamLen, tcpVars, seqVars, otherVars>>

\* <OffsetFile as io::Read>::read(buf): `self.stream.read(buf)`, which reads
\* what the store holds from its cursor on and advances the cursor.
Read(m) ==
    /\ offState = "live"
    /\ offOps < MaxOps
    /\ offOps' = offOps + 1
    /\ LET avail == IF streamLen > streamPos THEN streamLen - streamPos ELSE 0
           n == IF m < avail THEN m ELSE avail
       IN /\ streamPos' = streamPos + n
          /\ last' = [op |-> "read", at |-> streamPos, n |-> n]
    /\ UNCHANGED <<overflowChecks, offState, offset, streamLen, tcpVars, seqVars, otherVars>>

\* <OffsetFile as io::Write>::write(buf): `self.stream.write(buf)`, which
\* writes at the cursor, advances it and grows the store as needed.
Write(m) ==
    /\ offState = "live"
    /\ offOps < MaxOps
    /\ streamPos + m <= MaxWord
    /\ offOps' = offOps + 1
    /\ streamPos' = streamPos + m
    /\ streamLen' = IF streamPos + m > streamLen THEN streamPos + m ELSE streamLen
    /\ last' = [op |-> "write", at |-> streamPos, n |-> m]
    /\ UNCHANGED <<overflowChecks, offState, offset, tcpVars, seqVars, otherVars>>

NextOff ==
    \/ \E b \in Bases, fail \in BOOLEAN : New(b, fail)
    \/ \E k \in CurrentArgs, fail \in BOOLEAN : Seek("Current", k, fail)
    \/ \E k \in EndArgs, fail \in BOOLEAN : Seek("End", k, fail)
    \/ \E n \in StartArgs, fail \in BOOLEAN : Seek("Start", n, fail)
    \/ \E m \in BufLen : Read(m)
    \/ \E m \in BufLen : Write(m)

(***************************************************************************)
(* serialize_protobuf / deserialize_protobuf                                *)
(*                                                                         *)
(* The two helpers are in util.rs; the message types they are used with    *)
(* (their write_message and from_reader) are generated protocol code.  A   *)
(* message with an optional varint field 1 and an optional bytes field 2   *)
(* stands for them, in the protobuf wire encoding.                         *)
(***************************************************************************)

None == 0 - 1                             \* an optional field that is not set
FieldValues == {0, 1, 127, 128, 300}   \* values of the varint field
ByteValues == {0, 255}                 \* bytes of the bytes field

RECURSIVE SeqsUpTo(_, _)
SeqsUpTo(S, n) ==
    IF n = 0 THEN {<<>>}
    ELSE LET shorter == SeqsUpTo(S, n - 1)
         IN shorter \cup {Append(q, x) : q \in shorter, x \in S}

Messages ==
    {[seq |-> v, hasPayload |-> FALSE, payload |-> <<>>] : v \in FieldValues \cup {None}}
    \cup {[seq |-> v, hasPayload |-> TRUE, payload |-> b] :
             v \in FieldValues \cup {None}, b \in SeqsUpTo(ByteValues, MaxPayload)}

\* A base-128 varint, least significant group first.
RECURSIVE Varint(_)
Varint(n) ==
    IF n < 128 THEN <<n>> ELSE <<(n % 128) + 128>> \o Varint(n \div 128)

\* Reads a varint at index i: its value and the index after it, or an error
\* when the bytes end inside it.
RECURSIVE ReadVarint(_, _)
ReadVarint(buf, i) ==
    IF i > Len(buf) THEN [ok |-> FALSE]
    ELSE IF buf[i] < 128 THEN [ok |-> TRUE, val |-> buf[i], next |-> i + 1]
    ELSE LET rest == ReadVarint(buf, i + 1)
         IN IF rest.ok
            THEN [ok |-> TRUE, val |-> (buf[i] - 128) + 128 * rest.val, next |-> rest.next]
            ELSE rest

\* MessageWrite::write_message: each field that is set, as key and value.
write_message(m) ==
    (IF m.seq # None THEN <<8>> \o Varint(m.seq) ELSE <<>>)
    \o (IF m.hasPayload THEN <<18>> \o Varint(Len(m.payload)) \o m.payload ELSE <<>>)

\* MessageWrite::get_size
get_size(m) == Len(write_message(m))

\* MessageRead::from_reader from index i on, with the fields read so far:
\* key 8 is field 1, key 18 is field 2, any other field is skipped by its
\* wire type; bytes that end early are an error.  The bytes of a field are
\* copied into the message.
RECURSIVE from_reader(_, _, _)
from_reader(buf, i, m) ==
    IF i > Len(buf) THEN [outcome |-> "Ok", msg |-> m]
    ELSE LET key == ReadVarint(buf, i) IN
         IF ~key.ok THEN [outcome |-> "Err"]
         ELSE IF key.val % 8 = 0
         THEN LET v == ReadVarint(buf, key.next) IN
              IF ~v.ok THEN [outcome |-> "Err"]
              ELSE from_reader(buf, v.next,
                               IF key.val = 8 THEN [m EXCEPT !.seq = v.val] ELSE m)
         ELSE IF key.val % 8 = 2
         THEN LET n == ReadVarint(buf, key.next) IN
              IF ~n.ok THEN [outcome |-> "Err"]
              ELSE IF n.next + n.val - 1 > Len(buf) THEN [outcome |-> "Err"]
              ELSE from_reader(buf, n.next + n.val,
                               IF key.val = 18
                               THEN [m EXCEPT !.hasPayload = TRUE,
                                              !.payload = SubSeq(buf, n.next, n.next + n.val - 1)]
                               ELSE m)
         ELSE [outcome |-> "Err"]

DefaultMessage == [seq |-> None, hasPayload |-> FALSE, payload |-> <<>>]

\* A serializer that writes the message with its length in front, as
\* Writer::write_message does.
serialize_protobuf_LengthPrefixed(m) ==
    [outcome |-> "Ok", buf |-> Varint(get_size(m)) \o write_message(m)]

\* serialize_protobuf: a buffer of capacity get_size, and
\* msg.write_message(&mut writer) into it.
serialize_protobuf(m) ==
    [outcome |-> "Ok", buf |-> write_message(m)]

\* deserialize_protobuf: T::from_reader over the whole slice.
deserialize_protobuf(buf) == from_reader(buf, 1, DefaultMessage)

NotYet == [outcome |-> "none"]

Codec_start ==
    /\ codecMsg \in Messages
    /\ codecBuf = NotYet
    /\ codecOut = NotYet

Serialize ==
    /\ codecBuf = NotYet
    /\ codecBuf' = serialize_protobuf(codecMsg)
    /\ UNCHANGED <<codecMsg, codecOut, frameCodec>>

Deserialize ==
    /\ codecBuf # NotYet
    /\ codecBuf.outcome = "Ok"
    /\ codecOut = NotYet
    /\ codecOut' = deserialize_protobuf(codecBuf.buf)
    /\ UNCHANGED <<codecMsg, codecBuf, frameCodec>>

NextCodec == Serialize \/ Deserialize

(***************************************************************************)
(* Web::client and the TokenProvider                                       *)
(*                                                                         *)
(* Web::client is in web.rs.  TokenProvider::get is in psst-core's         *)
(* access_token module: it serves a cached token while the token is       *)
(* usable, and callers that find a fetch in flight share its result.       *)
(***************************************************************************)

NoResult == [outcome |-> "none"]

\* A token is usable only strictly before its expiry instant.
Usable(expires, t) == expires # None /\ t < expires

\* TokenProvider::get, as one caller enters it.
TokenProvider_get(c) ==
    IF Usable(tokExpires, now)
    THEN /\ tokGot' = [tokGot EXCEPT ![c] = [outcome |-> "Ok", expires |-> tokExpires]]
         /\ tokServed' = [tokServed EXCEPT ![c] = 0]
         /\ tokPc' = [tokPc EXCEPT ![c] = "done"]
         /\ spotifyToken' = tokExpires
         /\ UNCHANGED <<tokInflight, tokFetches>>
    ELSE /\ tokGot' = [tokGot EXCEPT ![c] = NoResult]
         /\ tokServed' = [tokServed EXCEPT ![c] = Len(tokFetches) + (IF tokInflight THEN 0 ELSE 1)]
         /\ tokPc' = [tokPc EXCEPT ![c] = "waiting"]
         /\ tokInflight' = TRUE
         /\ tokFetches' = IF tokInflight THEN tokFetches ELSE Append(tokFetches, tokCompleted)
         /\ UNCHANGED spotifyToken

\* Web::client with a TokenProvider of its own for each call: it has no
\* cached token and no fetch to join, so each call fetches.
Client_FreshProvider(c) ==
    /\ tokPc[c] \in {"idle", "done"}
    /\ tokCalls[c] < MaxCalls
    /\ tokCalls' = [tokCalls EXCEPT ![c] = @ + 1]
    /\ tokFetches' = Append(tokFetches, tokCompleted)
    /\ tokServed' = [tokServed EXCEPT ![c] = Len(tokFetches) + 1]
    /\ tokGot' = [tokGot EXCEPT ![c] = [outcome |-> "Ok", expires |-> now + TokenTtl]]
    /\ tokPc' = [tokPc EXCEPT ![c] = "done"]
    /\ spotifyToken' = now + TokenTtl
    /\ UNCHANGED <<now, tokExpires, tokInflight, tokCompleted, frameTok>>

\* Web::client: `self.token_provider.get(&self.session)`, on the provider
\* all calls share; the token it returns is given to the Spotify client.
Client(c) ==
    /\ tokPc[c] \in {"idle", "done"}
    /\ tokCalls[c] < MaxCalls
    /\ tokCalls' = [tokCalls EXCEPT ![c] = @ + 1]
    /\ TokenProvider_get(c)
    /\ UNCHANGED <<now, tokExpires, tokCompleted, frameTok>>

\* The fetch on the transport ends: with a token, which the provider caches,
\* or with an error.  Every caller waiting for it gets that result; in
\* Web::client an error becomes Error::WebApiError and a token is given to
\* the Spotify client.
FetchDone(ok) ==
    /\ tokInflight
    /\ tokInflight' = FALSE
    /\ tokCompleted' = tokCompleted + 1
    /\ tokExpires' = IF ok THEN now + TokenTtl ELSE tokExpires
    /\ tokGot' = [c \in Callers |->
                    IF tokPc[c] = "waiting"
                    THEN IF ok THEN [outcome |-> "Ok", expires |-> now + TokenTtl]
                         ELSE [outcome |-> "WebApiError"]
                    ELSE tokGot[c]]
    /\ tokPc' = [c \in Callers |-> IF tokPc[c] = "waiting" THEN "done" ELSE tokPc[c]]
    /\ spotifyToken' = IF ok /\ (\E c \in Callers : tokPc[c] = "waiting")
                       THEN now + TokenTtl ELSE spotifyToken
    /\ UNCHANGED <<now, tokCalls, tokServed, tokFetches, frameTok>>

\* Time passes.
Tick ==
    /\ now < MaxTime
    /\ now' = now + 1
    /\ UNCHANGED <<tokExpires, tokInflight, tokPc, tokCalls, tokGot, tokServed,
                   tokFetches, tokCompleted, spotifyToken, frameTok>>

\* Web::new: `TokenProvider::new()`, with no token.
Web_new ==
    /\ now = 0
    /\ tokExpires = None
    /\ tokInflight = FALSE
    /\ tokPc = [c \in Callers |-> "idle"]
    /\ tokCalls = [c \in Callers |-> 0]
    /\ tokGot = [c \in Callers |-> NoResult]
    /\ tokServed = [c \in Callers |-> 0]
    /\ tokFetches = <<>>
    /\ tokCompleted = 0
    /\ spotifyToken = None

NextTok ==
    \/ \E c \in Callers : Client(c)
    \/ \E ok \in BOOLEAN : FetchDone(ok)
    \/ Tick

(***************************************************************************)
(* Session::send_request                                                   *)
(*                                                                         *)
(* The session is in psst-core's session module.  It allocates the ids of  *)
(* its requests with Sequence::advance and tears its connection down with  *)
(* TcpShutdown::shutdown, both in util.rs.                                 *)
(***************************************************************************)

SessIds == 0..(Pow2(SessBits) - 1)

NoReply == [id |-> None, from |-> 0, n |-> 0]

\* The requests of one behaviour, over all callers.
MaxRequests == NumCallers

RECURSIVE SumOver(_, _)
SumOver(f, S) ==
    IF S = {} THEN 0
    ELSE LET x == CHOOSE y \in S : TRUE IN f[x] + SumOver(f, S \ {x})

\* What the peer answers a request with.
ReplyKinds == {"ok", "malformed", "denied"}

ReplyResult(kind) ==
    CASE kind = "ok" -> "Ok"
      [] kind = "malformed" -> "ProtocolError"
      [] kind = "denied" -> "AuthError"

\* shutdown() that does not touch the guard.
TcpShutdown_shutdown_Skip(g) == g

\* TcpShutdown::shutdown as one step of the guard's owner: `if
\* !self.shutdown { self.shutdown = true; let _ = stream.shutdown(Both); }`.
TcpShutdown_shutdown(g) ==
    IF g.shutdown THEN g ELSE [shutdown |-> TRUE, closes |-> g.closes + 1]

\* The bounded wait ends and the table still holds the entry.
Timeout_KeepEntry(c) ==
    /\ sessPc[c] = "waiting"
    /\ sessPc' = [sessPc EXCEPT ![c] = "done"]
    /\ sessRes' = [sessRes EXCEPT ![c] = "TimeoutError"]
    /\ UNCHANGED <<sessSeq, sessGuard, sessTable, sessWire, sessCalls, sessId,
                   sessWrites, sessGot, sessDropped, frameSess>>

\* send_request up to the wait for the reply: a dead session fails at once;
\* otherwise an id is allocated and the framed request is written once.  A
\* failed write shuts the guard down and is the caller's TransportError.
SendRequest(c, ioOk) ==
    /\ sessPc[c] \in {"idle", "done"}
    /\ sessCalls[c] < MaxCalls
    /\ SumOver(sessCalls, Callers) < MaxRequests
    /\ sessCalls' = [sessCalls EXCEPT ![c] = @ + 1]
    /\ sessGot' = [sessGot EXCEPT ![c] = NoReply]
    /\ IF sessGuard.shutdown
       THEN /\ sessRes' = [sessRes EXCEPT ![c] = "TransportError"]
            /\ sessPc' = [sessPc EXCEPT ![c] = "done"]
            /\ sessId' = [sessId EXCEPT ![c] = None]
            /\ sessWrites' = [sessWrites EXCEPT ![c] = 0]
            /\ UNCHANGED <<sessSeq, sessGuard, sessTable, sessWire>>
       ELSE LET r == Sequence_advance(sessSeq, SessBits) IN
            /\ sessSeq' = r.next
            /\ sessId' = [sessId EXCEPT ![c] = r.ret]
            /\ sessWrites' = [sessWrites EXCEPT ![c] = 1]
            /\ IF ioOk
               THEN /\ sessTable' = [sessTable EXCEPT ![r.ret] = c]
                    /\ sessWire' = sessWire \cup
                          {[id |-> r.ret, from |-> c, n |-> sessCalls[c] + 1]}
                    /\ sessPc' = [sessPc EXCEPT ![c] = "waiting"]
                    /\ sessRes' = [sessRes EXCEPT ![c] = "none"]
                    /\ UNCHANGED sessGuard
               ELSE /\ sessGuard' = TcpShutdown_shutdown(sessGuard)
                    /\ sessRes' = [sessRes EXCEPT ![c] = "TransportError"]
                    /\ sessPc' = [sessPc EXCEPT ![c] = "done"]
                    /\ UNCHANGED <<sessTable, sessWire>>
    /\ UNCHANGED <<sessDropped, frameSess>>

\* The reader loop takes in one reply, in any order (the reply to request n
\* of caller `from`), and hands it to the caller the table names for its
\* id; a reply nobody waits for is dropped.
Dispatch(from, n, kind) ==
    /\ ~sessGuard.shutdown
    /\ \E f \in sessWire : f.from = from /\ f.n = n
    /\ LET f == CHOOSE g \in sessWire : g.from = from /\ g.n = n
           to == sessTable[f.id]
       IN /\ sessWire' = sessWire \ {f}
          /\ IF to = 0
             THEN /\ sessDropped' = f
                  /\ UNCHANGED <<sessTable, sessPc, sessRes, sessGot>>
             ELSE /\ UNCHANGED sessDropped
                  /\ sessTable' = [sessTable EXCEPT ![f.id] = 0]
                  /\ sessPc' = [sessPc EXCEPT ![to] = "done"]
                  /\ sessRes' = [sessRes EXCEPT ![to] = ReplyResult(kind)]
                  /\ sessGot' = [sessGot EXCEPT ![to] = [id |-> f.id, from |-> f.from, n |-> f.n]]
    /\ UNCHANGED <<sessSeq, sessGuard, sessCalls, sessId, sessWrites, frameSess>>

\* The bounded wait ends with no reply: the caller's entry leaves the table.
Timeout(c) ==
    /\ sessPc[c] = "waiting"
    /\ sessPc' = [sessPc EXCEPT ![c] = "done"]
    /\ sessRes' = [sessRes EXCEPT ![c] = "TimeoutError"]
    /\ sessTable' = [sessTable EXCEPT ![sessId[c]] = 0]
    /\ UNCHANGED <<sessSeq, sessGuard, sessWire, sessCalls, sessId, sessWrites,
                   sessGot, sessDropped, frameSess>>

\* A connected session; its counter stands at the start of the id space or
\* shortly before the wraparound.
Session_start ==
    /\ sessSeq \in {0, MaxOf(SessBits) - 1}
    /\ sessGuard = [shutdown |-> FALSE, closes |-> 0]
    /\ sessTable = [i \in SessIds |-> 0]
    /\ sessWire = {}
    /\ sessPc = [c \in Callers |-> "idle"]
    /\ sessCalls = [c \in Callers |-> 0]
    /\ sessId = [c \in Callers |-> None]
    /\ sessWrites = [c \in Callers |-> 0]
    /\ sessRes = [c \in Callers |-> "none"]
    /\ sessGot = [c \in Callers |-> NoReply]
    /\ sessDropped = NoReply

NextSess ==
    \/ \E c \in Callers, ioOk \in BOOLEAN : SendRequest(c, ioOk)
    \/ \E from \in Callers, n \in 1..MaxCalls, kind \in ReplyKinds : Dispatch(from, n, kind)
    \/ \E c \in Callers : Timeout(c)

(***************************************************************************)
(* Web::with_paging (web.rs 124-153)                                       *)
(***************************************************************************)

\* `const PAGED_ITEMS_LIMIT: usize = 200;`
PAGED_ITEMS_LIMIT == 200

\* `let mut limit = 50;`
FirstLimit == 50

\* Sizes of the collections asked for, and the positions at which a
\* collection may hold an item map_fn drops (a playlist item that is not a
\* track, web.rs 316-319).
Totals == {0, 1, 3, 50, 51, 120, 200, 201, 250}
DropPositions == {0, 2, 50}

Min(a, b) == IF a < b THEN a ELSE b

\* The page a correct server answers a request with: the items at
\* offset..offset+limit-1 that exist, the total, and the request's own
\* limit and offset.
ServerPage(total, lim, ofs) ==
    [items |-> {i \in 0..(total - 1) : ofs <= i /\ i < ofs + lim},
     total |-> total, limit |-> lim, offset |-> ofs]

\* `page.items.into_iter().filter_map(&map_fn)`: how many items remain.
filter_map(items, drops) == Cardinality(items \ drops)

\* `page.total > results.len() && results.len() < Self::PAGED_ITEMS_LIMIT`
Continue(total, results) == total > results /\ results < PAGED_ITEMS_LIMIT

\* One turn of the loop: request a page, extend the results, then go on
\* with the next page or break.
with_paging ==
    /\ pgPc = "loop"
    /\ pgRequests < MaxPages
    /\ pgRequests' = pgRequests + 1
    /\ LET page == ServerPage(pgTotal, pgLimit, pgOffset)
           results == pgResults + filter_map(page.items, pgDrops)
       IN /\ pgResults' = results
          /\ IF Continue(page.total, results)
             THEN /\ pgLimit' = page.limit
                  /\ pgOffset' = page.offset + page.limit
                  /\ pgPc' = "loop"
             ELSE /\ pgPc' = "done"
                  /\ UNCHANGED <<pgLimit, pgOffset>>
    /\ UNCHANGED <<pgTotal, pgDrops, framePaging>>

\* with_paging is entered, for each collection.
with_paging_start ==
    /\ pgTotal \in Totals
    /\ pgDrops \in SUBSET {d \in DropPositions : d < pgTotal}
    /\ pgResults = 0
    /\ pgLimit = FirstLimit
    /\ pgOffset = 0
    /\ pgPc = "loop"
    /\ pgRequests = 0

NextPaging == with_paging

(***************************************************************************)
(* State and CommonCtx (data/mod.rs)                                       *)
(***************************************************************************)

Tracks == {"t1", "t2"}
Origins == {"Library", "Album"}
AlbumIds == {"a1", "a2"}

NoCurrent == [item |-> "none", origin |-> "none", progress |-> 0]

Empty == [resolved |-> FALSE, items |-> <<>>]

Resolved(items) == [resolved |-> TRUE, items |-> items]

Range(q) == {q[i] : i \in DOMAIN q}

\* `vector.push_front(x)`
push_front(q, x) == <<x>> \o q

\* `vector.retain(|e| e.id != id)`
retain(q, id) == SelectSeq(q, LAMBDA e : e # id)

\* CommonCtx::set_saved_albums and set_saved_tracks: the ids, collected.
set_saved(items) == Range(items)

\* CommonCtx::is_album_saved
is_album_saved(a) == a \in ctxAlbums

libFrame == <<libAlbums, libTracks, ctxAlbums, ctxTracks>>
pbFrame == <<pbState, pbCurrent, ctxItem>>

\* stop_playback that leaves common_ctx.playback_item as it is.
stop_playback_KeepItem ==
    /\ pbState' = "Stopped"
    /\ pbCurrent' = NoCurrent
    /\ UNCHANGED <<ctxItem, libFrame, frameState>>

loading_playback(item, origin) ==
    /\ ctxItem' = "none"
    /\ pbState' = "Loading"
    /\ pbCurrent' = [item |-> item, origin |-> origin, progress |-> 0]
    /\ UNCHANGED <<libFrame, frameState>>

start_playback(item, origin, progress) ==
    /\ ctxItem' = item
    /\ pbState' = "Playing"
    /\ pbCurrent' = [item |-> item, origin |-> origin, progress |-> progress]
    /\ UNCHANGED <<libFrame, frameState>>

progress_playback(progress) ==
    /\ pbCurrent' = IF pbCurrent = NoCurrent THEN pbCurrent
                    ELSE [pbCurrent EXCEPT !.progress = progress]
    /\ UNCHANGED <<pbState, ctxItem, libFrame, frameState>>

pause_playback ==
    /\ pbState' = "Paused"
    /\ UNCHANGED <<pbCurrent, ctxItem, libFrame, frameState>>

resume_playback ==
    /\ pbState' = "Playing"
    /\ UNCHANGED <<pbCurrent, ctxItem, libFrame, frameState>>

\* block_playback has an empty body.
block_playback ==
    UNCHANGED <<pbFrame, libFrame, frameState>>

stop_playback ==
    /\ pbState' = "Stopped"
    /\ pbCurrent' = NoCurrent
    /\ ctxItem' = "none"
    /\ UNCHANGED <<libFrame, frameState>>

save_track(track) ==
    /\ Len(libTracks.items) < MaxSaved
    /\ libTracks' = IF libTracks.resolved
                    THEN Resolved(push_front(libTracks.items, track)) ELSE libTracks
    /\ ctxTracks' = IF libTracks'.resolved THEN set_saved(libTracks'.items) ELSE ctxTracks
    /\ UNCHANGED <<pbFrame, libAlbums, ctxAlbums, frameState>>

unsave_track(track_id) ==
    /\ libTracks' = IF libTracks.resolved
                    THEN Resolved(retain(libTracks.items, track_id)) ELSE libTracks
    /\ ctxTracks' = IF libTracks'.resolved THEN set_saved(libTracks'.items) ELSE ctxTracks
    /\ UNCHANGED <<pbFrame, libAlbums, ctxAlbums, frameState>>

\* save_album and unsave_album change the library's list and nothing else.
save_album(album) ==
    /\ Len(libAlbums.items) < MaxSaved
    /\ libAlbums' = IF libAlbums.resolved
                    THEN Resolved(push_front(libAlbums.items, album)) ELSE libAlbums
    /\ UNCHANGED <<pbFrame, libTracks, ctxAlbums, ctxTracks, frameState>>

unsave_album(album_id) ==
    /\ libAlbums' = IF libAlbums.resolved
                    THEN Resolved(retain(libAlbums.items, album_id)) ELSE libAlbums
    /\ UNCHANGED <<pbFrame, libTracks, ctxAlbums, ctxTracks, frameState>>

\* The lists a library may hold when it has been loaded.
SavedLists(ids) == UNION {[1..n -> ids] : n \in 0..(MaxSaved - 1)}

\* State::default() for the playback; each library list is Promise::Empty
\* as in default(), or Resolved with common_ctx set from it by
\* set_saved_albums / set_saved_tracks.
State_default ==
    /\ pbState = "Stopped"
    /\ pbCurrent = NoCurrent
    /\ ctxItem = "none"
    /\ libAlbums \in {Empty} \cup {Resolved(q) : q \in SavedLists(AlbumIds)}
    /\ ctxAlbums = set_saved(libAlbums.items)
    /\ libTracks \in {Empty, Resolved(<<>>)}
    /\ ctxTracks = set_saved(libTracks.items)

NextState ==
    \/ \E item \in Tracks, origin \in Origins : loading_playback(item, origin)
    \/ \E item \in Tracks, origin \in Origins, progress \in 0..MaxProgress :
          start_playback(item, origin, progress)
    \/ \E progress \in 0..MaxProgress : progress_playback(progress)
    \/ pause_playback
    \/ resume_playback
    \/ block_playback
    \/ stop_playback
    \/ \E track \in Tracks : save_track(track)
    \/ \E track \in Tracks : unsave_track(track)
    \/ \E album \in AlbumIds : save_album(album)
    \/ \E album \in AlbumIds : unsave_album(album)

(***************************************************************************)
(* CacheEntry (web.rs 36-60) and Web::load_album (web.rs 243-258)          *)
(***************************************************************************)

\* What the JSON of an album may be, and what a cache path may hold: no
\* file, a file that does not parse, or the JSON of a value.
Values == {"v1", "v2"}
FileStates == {"absent", "corrupt"} \cup Values

\* What the request future yields when awaited, and how store() goes.
RequestOutcomes == {"Err"} \cup Values
StoreOutcomes == {"ok", "create_fails", "write_fails"}

Ok(v) == [outcome |-> "Ok", value |-> v]
Err == [outcome |-> "Err", value |-> "none"]

\* CacheEntry::load: `serde_json::from_reader(File::open(path).ok()?).ok()`
load(file) == IF file \in Values THEN file ELSE "none"

\* CacheEntry::store: File::create truncates the file, to_writer fills it;
\* either may fail.
store(file, value, how) ==
    CASE how = "ok" -> [result |-> "Ok", file |-> value]
      [] how = "create_fails" -> [result |-> "Err", file |-> file]
      [] how = "write_fails" -> [result |-> "Err", file |-> "corrupt"]

\* load_or_store that awaits the request before it looks at the cache.
load_or_store_Eager(file, req, how) ==
    IF load(file) # "none"
    THEN [result |-> Ok(load(file)), runs |-> 1, file |-> file, warned |-> FALSE]
    ELSE IF req = "Err"
         THEN [result |-> Err, runs |-> 1, file |-> file, warned |-> FALSE]
         ELSE LET st == store(file, req, how) IN
              [result |-> Ok(req), runs |-> 1, file |-> st.file,
               warned |-> st.result = "Err"]

\* CacheEntry::load_or_store on the file at the entry's path, with what the
\* request yields if awaited and how the store goes if tried.
load_or_store(file, req, how) ==
    IF load(file) # "none"
    THEN [result |-> Ok(load(file)), runs |-> 0, file |-> file, warned |-> FALSE]
    ELSE IF req = "Err"
         THEN [result |-> Err, runs |-> 1, file |-> file, warned |-> FALSE]
         ELSE LET st == store(file, req, how) IN
              [result |-> Ok(req), runs |-> 1, file |-> st.file,
               warned |-> st.result = "Err"]

NoCall == [id |-> "none", before |-> "absent", req |-> "Err", how |-> "ok",
           result |-> Err, runs |-> 0, after |-> "absent", warned |-> FALSE]

\* Web::load_album: `self.cache.album(id).load_or_store(async { ... })`
load_album(id, req, how) ==
    LET r == load_or_store(cacheFiles[id], req, how) IN
    /\ cacheFiles' = [cacheFiles EXCEPT ![id] = r.file]
    /\ cacheLast' = [id |-> id, before |-> cacheFiles[id], req |-> req, how |-> how,
                     result |-> r.result, runs |-> r.runs, after |-> r.file,
                     warned |-> r.warned]
    /\ UNCHANGED frameCache

\* The cache directory as load_album finds it.
WebCache_start ==
    /\ cacheFiles \in [AlbumIds -> FileStates]
    /\ cacheLast = NoCall

NextCache ==
    \E id \in AlbumIds, req \in RequestOutcomes, how \in StoreOutcomes :
       load_album(id, req, how)

(***************************************************************************)
(* The specifications, one per component.                                  *)
(***************************************************************************)

\* A component that takes no step under another component's specification.
TcpParked == TcpShutdown_new

SeqParked == seqBits = 1 /\ seqVal = 0 /\ seqRets = <<>> /\ seqStatus = "ok"

OffParked ==
    /\ overflowChecks = FALSE
    /\ offState = "none"
    /\ offset = 0
    /\ streamPos = 0
    /\ streamLen = 0
    /\ last = NoOp
    /\ offOps = 0

CodecParked == codecMsg = DefaultMessage /\ codecBuf = NotYet /\ codecOut = NotYet

TokParked == Web_new

SessParked ==
    /\ sessSeq = 0
    /\ sessGuard = [shutdown |-> FALSE, closes |-> 0]
    /\ sessTable = [i \in SessIds |-> 0]
    /\ sessWire = {}
    /\ sessPc = [c \in Callers |-> "idle"]
    /\ sessCalls = [c \in Callers |-> 0]
    /\ sessId = [c \in Callers |-> None]
    /\ sessWrites = [c \in Callers |-> 0]
    /\ sessRes = [c \in Callers |-> "none"]
    /\ sessGot = [c \in Callers |-> NoReply]
    /\ sessDropped = NoReply

PagingParked ==
    /\ pgTotal = 0
    /\ pgDrops = {}
    /\ pgResults = 0
    /\ pgLimit = FirstLimit
    /\ pgOffset = 0
    /\ pgPc = "loop"
    /\ pgRequests = 0

StateParked ==
    /\ pbState = "Stopped"
    /\ pbCurrent = NoCurrent
    /\ ctxItem = "none"
    /\ libAlbums = Empty
    /\ libTracks = Empty
    /\ ctxAlbums = {}
    /\ ctxTracks = {}

CacheParked ==
    /\ cacheFiles = [id \in AlbumIds |-> "absent"]
    /\ cacheLast = NoCall

OtherParked == CodecParked /\ TokParked /\ SessParked /\ PagingParked /\ StateParked /\ CacheParked

InitTcp == TcpShutdown_new /\ SeqParked /\ OffParked /\ OtherParked

SpecTcp == InitTcp /\ [][NextTcp]_vars

InitSeq == TcpParked /\ Sequence_new /\ OffParked /\ OtherParked

SpecSeq == InitSeq /\ [][NextSeq]_vars

InitOff == TcpParked /\ SeqParked /\ OffsetFile_none /\ OtherParked

SpecOff == InitOff /\ [][NextOff]_vars

FirstParked == TcpParked /\ SeqParked /\ OffParked

InitCodec == FirstParked /\ Codec_start /\ TokParked /\ SessParked /\ PagingParked /\ StateParked /\ CacheParked

SpecCodec == InitCodec /\ [][NextCodec]_vars

InitTok == FirstParked /\ CodecParked /\ Web_new /\ SessParked /\ PagingParked /\ StateParked /\ CacheParked

SpecTok == InitTok /\ [][NextTok]_vars

InitSess == FirstParked /\ CodecParked /\ TokParked /\ Session_start /\ PagingParked /\ StateParked /\ CacheParked

SpecSess == InitSess /\ [][NextSess]_vars

InitPaging == FirstParked /\ CodecParked /\ TokParked /\ SessParked /\ with_paging_start /\ StateParked /\ CacheParked

SpecPaging == InitPaging /\ [][NextPaging]_vars

InitState == FirstParked /\ CodecParked /\ TokParked /\ SessParked /\ PagingParked /\ State_default /\ CacheParked

SpecState == InitState /\ [][NextState]_vars

InitCache == FirstParked /\ CodecParked /\ TokParked /\ SessParked /\ PagingParked /\ StateParked /\ WebCache_start

SpecCache == InitCache /\ [][NextCache]_vars

(***************************************************************************)
(* Claims about TcpShutdown, checked under SpecTcp.                        *)
(***************************************************************************)

LaterCallRunning == \E c \in borrowers : ord[c] > 1

\* C1: shutdown() is idempotent.  Over any sequence of calls on one guard the
\* socket close is issued at most once, and only by the first call; a later
\* call finds the flag set, never reaches the assignment or the close, and
\* while it runs the guard's fields do not change.
C1_ShutdownIdempotent ==
    /\ [](/\ closes <= 1
          /\ \A i \in DOMAIN closedBy : closedBy[i] = 1
          /\ \A c \in borrowers :
                ord[c] > 1 => (shutdown /\ pc[c] \in {"l97", "l101"}))
    /\ [][LaterCallRunning => UNCHANGED <<shutdown, closes, closeResult, closedBy>>]_vars

\* A second or later call has run to its end after the first one closed.
C1_Witness ==
    /\ closes = 1
    /\ \E c \in Callers : ord[c] > 1 /\ pc[c] = "returned"

\* C2: with N callers invoking shutdown() concurrently, in every interleaving
\* exactly one close has been performed and the flag is set once every call
\* that was made has returned.
C2_ConcurrentSingleClose ==
    (InFlight(pc) = {} /\ entered >= 1) => (closes = 1 /\ shutdown)

\* Every caller has returned from a call, and calls did overlap in time.
C2_Witness ==
    /\ overlapped
    /\ \A c \in Callers : pc[c] = "returned"
    /\ closes = 1

\* C3: Open -> ShutDown, with ShutDown terminal.  The flag is false until a
\* shutdown() call begins, true once one has returned, never goes back to
\* false, and has_been_shut_down() returns the flag and changes nothing.
C3_TwoStateMachine ==
    /\ [](entered = 0 => ~shutdown)
    /\ []((\E c \in Callers : pc[c] = "returned") => shutdown)
    /\ [][shutdown => shutdown']_vars
    /\ [][queries' # queries =>
             /\ observed' = (IF shutdown THEN "true" ELSE "false")
             /\ UNCHANGED <<shutdown, closes, closeResult, closedBy>>]_vars

\* The query was answered true after a later call returned.
C3_Witness ==
    /\ observed = "true"
    /\ queries = MaxQueries
    /\ \E c \in Callers : ord[c] > 1 /\ pc[c] = "returned"

\* C4: a failed socket close is swallowed.  No call to shutdown() ends in a
\* panic or an error; once the close was attempted, failed or not, the flag
\* is set, the closing call can return, and it has returned only with the
\* flag set.
C4_CloseErrorSwallowed ==
    /\ \A c \in Callers : pc[c] # "panicked"
    /\ closeResult # "none" => shutdown
    /\ \A c \in Callers : pc[c] = "l101" => ENABLED Return(c)
    /\ \A c \in Callers : pc[c] = "returned" => shutdown

\* The call that issued the close has returned although the close failed.
C4_Witness ==
    /\ closeResult = "Err"
    /\ \E c \in Callers : ord[c] = 1 /\ pc[c] = "returned" /\ calls[c] = 1
    /\ shutdown

(***************************************************************************)
(* Claims about Sequence, checked under SpecSeq.                           *)
(***************************************************************************)

\* C5: advance() returns the value held before the call and stores that
\* value plus one modulo 2^bits; no call has an error outcome, the call on
\* the maximum value included.
C5_AdvanceReturnsOldStoresNext ==
    /\ [](seqStatus = "ok")
    /\ [][seqRets' # seqRets =>
             /\ seqRets' = Append(seqRets, seqVal)
             /\ seqVal' = (seqVal + 1) % Pow2(seqBits)]_vars
    /\ [][seqVal' # seqVal => seqRets' # seqRets]_vars

\* advance() was called on the maximum value: it returned it and stored 0.
C5_Witness ==
    /\ seqBits > 1
    /\ seqRets # <<>>
    /\ seqRets[Len(seqRets)] = MaxOf(seqBits)
    /\ seqVal = 0
    /\ seqStatus = "ok"

\* C6: for every width and starting value, the first 2^bits values returned
\* are pairwise distinct and call number 2^bits + 1 returns the first value
\* again, with no panic.
C6_FullCycleThenReuse ==
    /\ seqStatus = "ok"
    /\ \A i, j \in 1..Len(seqRets) :
          (i < j /\ j <= Pow2(seqBits)) => seqRets[i] # seqRets[j]
    /\ Len(seqRets) = Pow2(seqBits) + 1 => seqRets[Len(seqRets)] = seqRets[1]

\* 2^bits + 1 calls were made on a counter that did not start at 0.
C6_Witness ==
    /\ seqBits > 1
    /\ Len(seqRets) = Pow2(seqBits) + 1
    /\ seqRets[1] # 0
    /\ seqRets[Len(seqRets)] = seqRets[1]

(***************************************************************************)
(* Claims about OffsetFile, checked under SpecOff.                         *)
(***************************************************************************)

SeekDone(from) == last.op = "seek" /\ last.from = from

\* C7: seek(Start(n)) on a view with base offset b moves the backing store
\* to absolute position b + n and returns n, unless the store reports an
\* error.
C7_SeekStartMovesToBasePlusN ==
    (SeekDone("Start") /\ last.outcome # "Err") =>
        /\ last.outcome = "Ok"
        /\ streamPos = offset + last.arg
        /\ last.ret = last.arg

\* C8: no read or write that transfers bytes happens at a backing-store
\* position below the base offset.
C8_NoAccessBelowBase ==
    (last.op \in {"read", "write"} /\ last.n > 0) => last.at >= offset

\* C9: the position a seek reports is the store's resulting position minus
\* the base offset, and 0 when the store is at or before the base offset;
\* it is never negative and never a wrapped value.
C9_ReportedPositionSaturates ==
    (last.op = "seek" /\ last.outcome = "Ok") =>
        /\ last.ret = (IF streamPos > offset THEN streamPos - offset ELSE 0)
        /\ last.ret >= 0
        /\ last.ret <= streamPos

\* The store stands at byte 40 under a view with base 100, and the view,
\* asked for its position, reports 0.
C9_Witness ==
    /\ offset = 100
    /\ SeekDone("Current")
    /\ last.arg = 0
    /\ last.outcome = "Ok"
    /\ streamPos = 40
    /\ last.ret = 0

\* C10: seek(End(k)) and seek(Current(k)) reach the store as they were given:
\* the store ends up at its own end, or its own position, plus k, and only
\* the returned position has the base offset subtracted.
C10_EndAndCurrentPassThrough ==
    (last.op = "seek" /\ last.from \in {"Current", "End"}) =>
        /\ last.outcome # "Panic"
        /\ last.passedFrom = last.from
        /\ last.passedArg = last.arg
        /\ last.outcome = "Ok" =>
              /\ streamPos = last.arg +
                    (IF last.from = "End" THEN last.lenBefore ELSE last.posBefore)
              /\ last.ret = saturating_sub(streamPos, offset)
        /\ last.outcome = "Err" => streamPos = last.posBefore

\* seek(End(0)) on a view with base 100 over a store of 120 bytes left the
\* store at byte 120 and returned 20.
C10_Witness ==
    /\ offset = 100
    /\ SeekDone("End")
    /\ last.arg = 0
    /\ last.outcome = "Ok"
    /\ streamPos = 120
    /\ last.ret = 20

\* C11: OffsetFile::new(stream, b) seeks the store to absolute position b, so
\* the view starts at logical position 0 and its first read or write happens
\* at absolute position b; when that seek fails the error is returned, no
\* view exists and nothing is ever done through one.
C11_NewSeeksToBase ==
    /\ (last.op = "new" /\ last.outcome = "Ok") =>
          /\ offState = "live"
          /\ offset = last.arg
          /\ streamPos = last.arg
          /\ ReportedPos(streamPos) = 0
    /\ (offOps = 1 /\ last.op \in {"read", "write"}) => last.at = offset
    /\ (last.op = "new" /\ last.outcome = "Err") => offState = "failed"
    /\ offState = "failed" => (last.op = "new" /\ last.outcome = "Err" /\ offOps = 0)
    /\ offState = "none" => (last = NoOp /\ offOps = 0)

\* The first operation on a view built with base 100 was a read, and it
\* read bytes from absolute position 100 on.
C11_Witness ==
    /\ offset = 100
    /\ offOps = 1
    /\ last.op = "read"
    /\ last.at = 100
    /\ last.n > 0

(***************************************************************************)
(* Claims about the protobuf helpers, checked under SpecCodec.             *)
(***************************************************************************)

\* C12: for every valid message m, deserialize_protobuf(serialize_protobuf(m))
\* succeeds and yields a message equal to m in every field.
C12_RoundTrip ==
    /\ codecBuf # NotYet => codecBuf.outcome = "Ok"
    /\ codecOut # NotYet =>
          /\ codecOut.outcome = "Ok"
          /\ codecOut.msg.seq = codecMsg.seq
          /\ codecOut.msg.hasPayload = codecMsg.hasPayload
          /\ codecOut.msg.payload = codecMsg.payload

\* A message with a two-byte varint and a non-empty bytes field went
\* through both helpers.
C12_Witness ==
    /\ codecMsg.seq = 300
    /\ codecMsg.hasPayload
    /\ Len(codecMsg.payload) = MaxPayload
    /\ codecOut # NotYet
    /\ codecOut.outcome = "Ok"

(***************************************************************************)
(* Claims about Web::client and the TokenProvider, checked under SpecTok.  *)
(***************************************************************************)

\* C13: single-flight token fetch.  While no usable token is cached, the
\* callers that invoke the provider concurrently cause exactly one fetch: no
\* two fetches start without one completing in between, a waiting caller
\* always has a fetch in flight to wait for, and the callers served by one
\* fetch all receive its result, a token with the same expiry.
C13_SingleFlight ==
    /\ \A i, j \in DOMAIN tokFetches : i # j => tokFetches[i] # tokFetches[j]
    /\ (\E c \in Callers : tokPc[c] = "waiting") =>
          (tokInflight /\ Len(tokFetches) = tokCompleted + 1)
    /\ \A c \in Callers : tokPc[c] = "waiting" => tokServed[c] = Len(tokFetches)
    /\ \A c, d \in Callers :
          (tokPc[c] = "done" /\ tokPc[d] = "done" /\ tokServed[c] >= 1
              /\ tokServed[c] = tokServed[d]) => tokGot[c] = tokGot[d]

\* All callers asked while no token was cached, one fetch was made, and
\* each of them holds its token.
C13_Witness ==
    /\ Len(tokFetches) = 1
    /\ \A c \in Callers :
          /\ tokPc[c] = "done"
          /\ tokServed[c] = 1
          /\ tokGot[c] = [outcome |-> "Ok", expires |-> TokenTtl]

(***************************************************************************)
(* Claims about Session::send_request, checked under SpecSess.             *)
(***************************************************************************)

\* C14: reply correlation.  With several requests in flight on one session
\* the ids in flight are pairwise distinct, and a reply is handed only to
\* the caller whose allocated id is the reply's id: the reply a caller holds
\* carries that caller's id and answers that caller's request, and it never
\* carries the id of another caller's request in flight, in whatever order
\* the replies come in.
C14_ReplyCorrelation ==
    /\ \A c, d \in Callers :
          (c # d /\ sessPc[c] = "waiting" /\ sessPc[d] = "waiting") => sessId[c] # sessId[d]
    /\ \A c \in Callers :
          sessGot[c] # NoReply =>
             /\ sessGot[c].id = sessId[c]
             /\ sessGot[c].from = c
             /\ sessGot[c].n = sessCalls[c]
             /\ \A d \in Callers \ {c} : sessPc[d] = "waiting" => sessGot[c].id # sessId[d]

\* Every caller has a request in flight, the counter wrapped on the way, and
\* the request sent last (id 0, after the wraparound) is answered first.
C14_Witness ==
    \E c \in Callers :
       /\ sessId[c] = 0
       /\ sessRes[c] = "Ok"
       /\ sessGot[c].id = 0
       /\ \A d \in Callers \ {c} : sessPc[d] = "waiting"
       /\ \E d \in Callers : sessId[d] = MaxOf(SessBits)

\* C15: a request whose wait ends without a reply returns TimeoutError and
\* leaves no entry in the correlation table; when the reply to such an
\* abandoned request comes in later it is dropped: no error is raised and no
\* caller's state changes.
C15_TimeoutThenLateReplyDropped ==
    /\ [](\A c \in Callers :
            sessRes[c] = "TimeoutError" =>
               /\ sessPc[c] = "done"
               /\ sessGot[c] = NoReply
               /\ sessTable[sessId[c]] # c)
    /\ [][\A f \in sessWire :
            (f \notin sessWire' /\ sessRes[f.from] = "TimeoutError" /\ sessCalls[f.from] = f.n) =>
               /\ sessDropped' = f
               /\ sessGuard' = sessGuard
               /\ sessRes' = sessRes
               /\ sessGot' = sessGot
               /\ sessPc' = sessPc]_vars

\* A request timed out and its reply came in afterwards and went to nobody.
C15_Witness ==
    /\ sessDropped # NoReply
    /\ sessRes[sessDropped.from] = "TimeoutError"
    /\ sessCalls[sessDropped.from] = sessDropped.n
    /\ sessGot[sessDropped.from] = NoReply
    /\ sessTable[sessDropped.id] = 0

ScopedErrors == {"ProtocolError", "AuthError", "TimeoutError"}

\* C16: a transport failure in send_request leaves the guard shut down (one
\* close issued) and is returned to the caller after the one write, with no
\* second attempt; from then on the guard stays shut, nothing more is
\* written and no request succeeds.  A decode, auth or timeout error of one
\* request leaves the guard as it was.
C16_TransportFatalOthersScoped ==
    /\ [](/\ \A c \in Callers : sessRes[c] = "TransportError" => sessGuard.shutdown
          /\ \A c \in Callers : sessWrites[c] <= 1
          /\ sessGuard.closes = (IF sessGuard.shutdown THEN 1 ELSE 0))
    /\ [][/\ sessGuard.shutdown =>
                /\ sessGuard' = sessGuard
                /\ sessWire' \subseteq sessWire
                /\ \A c \in Callers :
                      /\ sessRes'[c] = "Ok" => sessRes[c] = "Ok"
                      /\ sessCalls'[c] # sessCalls[c] =>
                            (sessRes'[c] = "TransportError" /\ sessWrites'[c] = 0)
          /\ \A c \in Callers :
                (sessRes'[c] \in ScopedErrors /\ sessRes'[c] # sessRes[c]) =>
                    sessGuard' = sessGuard]_vars

\* One request ended with a request-scoped error, a later write failed and
\* shut the guard, and the request after that was refused without I/O.
C16_Witness ==
    \E a, b, c \in Callers :
       /\ sessRes[a] \in ScopedErrors
       /\ sessRes[b] = "TransportError" /\ sessWrites[b] = 1
       /\ sessRes[c] = "TransportError" /\ sessWrites[c] = 0
       /\ sessGuard = [shutdown |-> TRUE, closes |-> 1]

(***************************************************************************)
(* Claims about Web::with_paging, checked under SpecPaging.                *)
(***************************************************************************)

\* C17: with_paging terminates for every finite collection a correct server
\* pages out, also when map_fn drops items: the loop has stopped requesting
\* by the time it has made MaxPages requests, more than any of the
\* collections has pages.
C17_PagingTerminates ==
    pgRequests = MaxPages => pgPc = "done"

(***************************************************************************)
(* Claims about State and CommonCtx, checked under SpecState.              *)
(***************************************************************************)

\* C18: while library.saved_albums is Resolved, the ids in
\* common_ctx.saved_albums are the ids of the albums in the library's list,
\* so is_album_saved(a) is true exactly for the albums in the list, after
\* any save_album and unsave_album calls.
C18_SavedAlbumsInSync ==
    libAlbums.resolved =>
       \A a \in AlbumIds : is_album_saved(a) <=> a \in Range(libAlbums.items)

\* C19: if common_ctx.playback_item is set then playback.current holds the
\* same item and playback.state is Playing or Paused; if playback.state is
\* Stopped then playback.current and common_ctx.playback_item are empty.
C19_PlaybackInvariants ==
    /\ ctxItem # "none" =>
          /\ pbCurrent # NoCurrent
          /\ pbCurrent.item = ctxItem
          /\ pbState \in {"Playing", "Paused"}
    /\ pbState = "Stopped" => (pbCurrent = NoCurrent /\ ctxItem = "none")

\* A track was started and paused, with progress reported on the way.
C19_Witness ==
    /\ ctxItem = "t2"
    /\ pbState = "Paused"
    /\ pbCurrent = [item |-> "t2", origin |-> "Album", progress |-> MaxProgress]

(***************************************************************************)
(* Claims about CacheEntry::load_or_store, checked under SpecCache.        *)
(***************************************************************************)

\* C20: load_or_store runs the request only on a miss.  When load() yields
\* a value, that value is returned, the request is not run and the file is
\* left alone.  On a miss the request runs once; if it fails its error is
\* returned and the file is as it was; if it succeeds its value is returned,
\* also when storing it fails.
C20_RequestOnlyOnMiss ==
    cacheLast.id # "none" =>
       IF load(cacheLast.before) # "none"
       THEN /\ cacheLast.result = Ok(cacheLast.before)
            /\ cacheLast.runs = 0
            /\ cacheLast.after = cacheLast.before
       ELSE /\ cacheLast.runs = 1
            /\ cacheLast.req = "Err" =>
                  (cacheLast.result = Err /\ cacheLast.after = cacheLast.before)
            /\ cacheLast.req # "Err" =>
                  /\ cacheLast.result = Ok(cacheLast.req)
                  /\ cacheLast.how = "ok" => cacheLast.after = cacheLast.req

\* A miss whose request succeeded and whose store failed half way: the
\* value is returned and the file is left unreadable.
C20_Witness ==
    /\ cacheLast.id = "a1"
    /\ cacheLast.before = "absent"
    /\ cacheLast.req = "v1"
    /\ cacheLast.how = "write_fails"
    /\ cacheLast.result = Ok("v1")
    /\ cacheLast.warned
    /\ cacheFiles["a1"] = "corrupt"

(***************************************************************************)
(* The Start translation of OffsetFile::seek, checked under SpecOff.       *)
(***************************************************************************)

\* C21: for every base offset b and every n, seek(Start(n)) asks the
\* backing store for exactly Start(b + n): the addition does not overflow
\* the word, so the call never aborts and the position asked for is never a
\* wrapped one below b.
C21_StartAdditionNeverOverflows ==
    SeekDone("Start") =>
        /\ last.outcome # "Panic"
        /\ last.passedFrom = "Start"
        /\ last.passedArg = offset + last.arg
        /\ last.passedArg >= offset
        /\ last.passedArg <= MaxWord

====
